---------------------------- MODULE Spec2Model ----------------------------
(***************************************************************************)
(* A model of scripts/lrc_build.py: the version functions of LRCBuilder    *)
(* (parse_version, bump_version, the reading and rewriting of main.go) and  *)
(* the three commands build, bump and release, one action per external     *)
(* step (git call, compiler call, file-system step, B2 request, prompt).   *)
(*                                                                         *)
(* Text that the code inspects character by character (a version, a line   *)
(* of main.go) is a sequence of one-character strings; text that the code  *)
(* only concatenates (keys, URLs, directory names) is a string.            *)
(***************************************************************************)
EXTENDS Integers, Sequences, FiniteSets, TLC

(***************************************************************************)
(* Bounds of the model.                                                    *)
(***************************************************************************)
\* Longest version text handed to parse_version / bump_version.
MaxLen == 7
\* Number of invocations of the script in one behaviour.
MaxRuns == 2

\* The longest main.go, in lines, that get_version_from_source and
\* update_version_in_source are applied to on their own.
MaxLines == 3

(***************************************************************************)
(* Characters and the str methods the code uses.                           *)
(***************************************************************************)
Digits == <<"0", "1", "2", "3", "4", "5", "6", "7", "8", "9">>

DigitSet == {Digits[i] : i \in 1..10}

\* The value of a decimal digit.
DigitVal(c) == (CHOOSE i \in 1..10 : Digits[i] = c) - 1

\* str.isspace for the characters of the model.
Whitespace == {" ", "\t", "\n"}

\* The characters version texts are drawn from.
Alphabet == {"v", ".", "0", "1", "-"}

RECURSIVE Join(_)
\* "".join(chars): a character sequence as a string.
Join(s) == IF s = <<>> THEN "" ELSE Head(s) \o Join(Tail(s))

RECURSIVE LStrip(_)
LStrip(s) ==
    IF s # <<>> /\ Head(s) \in Whitespace THEN LStrip(Tail(s)) ELSE s

RECURSIVE RStrip(_)
RStrip(s) ==
    IF s # <<>> /\ s[Len(s)] \in Whitespace
    THEN RStrip(SubSeq(s, 1, Len(s) - 1))
    ELSE s

\* str.strip()
Strip(s) == RStrip(LStrip(s))

UpperCase ==
    <<"A", "B", "C", "D", "E", "F", "G", "H", "I", "J", "K", "L", "M",
      "N", "O", "P", "Q", "R", "S", "T", "U", "V", "W", "X", "Y", "Z">>

LowerCase ==
    <<"a", "b", "c", "d", "e", "f", "g", "h", "i", "j", "k", "l", "m",
      "n", "o", "p", "q", "r", "s", "t", "u", "v", "w", "x", "y", "z">>

\* str.lower() of one character
LowerChar(c) ==
    IF \E k \in 1..Len(UpperCase) : UpperCase[k] = c
    THEN LowerCase[CHOOSE k \in 1..Len(UpperCase) : UpperCase[k] = c]
    ELSE c

\* str.lower()
Lower(s) == [k \in 1..Len(s) |-> LowerChar(s[k])]

\* str.startswith(prefix)
StartsWith(s, prefix) ==
    Len(s) >= Len(prefix) /\ SubSeq(s, 1, Len(prefix)) = prefix

\* The index of the first sep in s, 0 when there is none.
FindFirst(s, sep) ==
    IF \E i \in 1..Len(s) : s[i] = sep
    THEN CHOOSE i \in 1..Len(s) : s[i] = sep /\ \A j \in 1..(i - 1) : s[j] # sep
    ELSE 0

RECURSIVE Split(_, _)
\* str.split(sep) for a one-character sep: always at least one part.
Split(s, sep) ==
    LET i == FindFirst(s, sep)
    IN  IF i = 0
        THEN <<s>>
        ELSE <<SubSeq(s, 1, i - 1)>> \o Split(SubSeq(s, i + 1, Len(s)), sep)

RECURSIVE DigitsValue(_, _)
\* The value of a run of digits and underscores, most significant first.
DigitsValue(s, acc) ==
    IF s = <<>> THEN acc
    ELSE IF Head(s) = "_" THEN DigitsValue(Tail(s), acc)
    ELSE DigitsValue(Tail(s), 10 * acc + DigitVal(Head(s)))

\* int(s) of Python for ASCII text: surrounding whitespace is dropped, one
\* sign is allowed, then digits, single underscores allowed between digits.
\* ok = FALSE stands for ValueError.
PyInt(s) ==
    LET t      == Strip(s)
        signed == t # <<>> /\ Head(t) \in {"+", "-"}
        body   == IF signed THEN Tail(t) ELSE t
        wellFormed ==
            /\ body # <<>>
            /\ \A i \in 1..Len(body) : body[i] \in DigitSet \cup {"_"}
            /\ body[1] \in DigitSet
            /\ body[Len(body)] \in DigitSet
            /\ \A i \in 1..(Len(body) - 1) : ~(body[i] = "_" /\ body[i + 1] = "_")
        mag    == DigitsValue(body, 0)
    IN  IF wellFormed
        THEN [ok |-> TRUE, val |-> IF signed /\ Head(t) = "-" THEN 0 - mag ELSE mag]
        ELSE [ok |-> FALSE, val |-> 0]

RECURSIVE NatStr(_)
NatStr(n) ==
    IF n < 10 THEN <<Digits[n + 1]>>
    ELSE NatStr(n \div 10) \o <<Digits[(n % 10) + 1]>>

\* str(n) of an int, as the f-string of bump_version formats it.
IntStr(n) == IF n < 0 THEN <<"-">> \o NatStr(0 - n) ELSE NatStr(n)

(***************************************************************************)
(* LRCBuilder.parse_version and LRCBuilder.bump_version.  A result with    *)
(* ok = FALSE stands for the sys.exit(1) of the function.                  *)
(***************************************************************************)
VersionExit == [ok |-> FALSE, val |-> <<>>]

\* parse_version that tests `len(parts) < 3` and so takes the first three
\* of four or more components.
parse_version_AtLeastThree(version) ==
    IF ~StartsWith(version, <<"v">>) THEN VersionExit
    ELSE LET parts == Split(Tail(version), ".")
         IN  IF Len(parts) < 3 THEN VersionExit
             ELSE LET a == PyInt(parts[1])
                      b == PyInt(parts[2])
                      c == PyInt(parts[3])
                  IN  IF a.ok /\ b.ok /\ c.ok
                      THEN [ok |-> TRUE, val |-> <<a.val, b.val, c.val>>]
                      ELSE VersionExit

parse_version(version) ==
    IF ~StartsWith(version, <<"v">>) THEN VersionExit
    ELSE LET parts == Split(Tail(version), ".")
         IN  IF Len(parts) # 3 THEN VersionExit
             ELSE LET a == PyInt(parts[1])
                      b == PyInt(parts[2])
                      c == PyInt(parts[3])
                  IN  IF a.ok /\ b.ok /\ c.ok
                      THEN [ok |-> TRUE, val |-> <<a.val, b.val, c.val>>]
                      ELSE VersionExit

\* The f-string with minor and patch in each other's place.
FormatVersion_Swapped(major, minor, patch) ==
    <<"v">> \o IntStr(major) \o <<".">> \o IntStr(patch) \o <<".">> \o IntStr(minor)

\* f"v{major}.{minor}.{patch}"
FormatVersion(major, minor, patch) ==
    <<"v">> \o IntStr(major) \o <<".">> \o IntStr(minor) \o <<".">> \o IntStr(patch)

\* bump_version whose minor bump resets patch without incrementing minor.
bump_version_MinorNotIncremented(current, bump_type) ==
    LET p == parse_version(current)
    IN  IF ~p.ok THEN VersionExit
        ELSE CASE bump_type = "patch" ->
                    [ok |-> TRUE,
                     val |-> FormatVersion(p.val[1], p.val[2], p.val[3] + 1)]
               [] bump_type = "minor" ->
                    [ok |-> TRUE, val |-> FormatVersion(p.val[1], p.val[2], 0)]
               [] bump_type = "major" ->
                    [ok |-> TRUE, val |-> FormatVersion(p.val[1] + 1, 0, 0)]
               [] OTHER -> VersionExit

\* bump_version whose minor bump leaves patch as it is.
bump_version_KeepPatch(current, bump_type) ==
    LET p == parse_version(current)
    IN  IF ~p.ok THEN VersionExit
        ELSE CASE bump_type = "patch" ->
                    [ok |-> TRUE,
                     val |-> FormatVersion(p.val[1], p.val[2], p.val[3] + 1)]
               [] bump_type = "minor" ->
                    [ok |-> TRUE,
                     val |-> FormatVersion(p.val[1], p.val[2] + 1, p.val[3])]
               [] bump_type = "major" ->
                    [ok |-> TRUE, val |-> FormatVersion(p.val[1] + 1, 0, 0)]
               [] OTHER -> VersionExit

bump_version(current, bump_type) ==
    LET p == parse_version(current)
    IN  IF ~p.ok THEN VersionExit
        ELSE LET major == p.val[1]
                 minor == p.val[2]
                 patch == p.val[3]
             IN  CASE bump_type = "patch" ->
                        [ok |-> TRUE, val |-> FormatVersion(major, minor, patch + 1)]
                   [] bump_type = "minor" ->
                        [ok |-> TRUE, val |-> FormatVersion(major, minor + 1, 0)]
                   [] bump_type = "major" ->
                        [ok |-> TRUE, val |-> FormatVersion(major + 1, 0, 0)]
                   [] OTHER -> VersionExit


(***************************************************************************)
(* Build and B2 configuration (module-level constants of the script).      *)
(***************************************************************************)
BUILD_OUTPUT_DIR == "dist"

PLATFORMS ==
    << <<"linux", "amd64">>,
       <<"linux", "arm64">>,
       <<"darwin", "amd64">>,
       <<"darwin", "arm64">>,
       <<"windows", "amd64">> >>

B2_APP_KEY == "REDACTED_B2_APP_KEY"

B2_BUCKET_NAME == "hexmos"

B2_BUCKET_ID == "REDACTED_B2_BUCKET_ID"

B2_UPLOAD_PATH_PREFIX == "lrc"

\* The host of the public download URLs that upload_to_b2 prints.
DownloadHost == "f005.backblazeb2.com"

(***************************************************************************)
(* pathlib.Path, as the sequence of its components below project_root.     *)
(***************************************************************************)
PathJoin(p, name) == Append(p, name)

PathName(p) == p[Len(p)]

PathParent(p) == SubSeq(p, 1, Len(p) - 1)

\* self.dist_dir
dist_dir == <<BUILD_OUTPUT_DIR>>

(***************************************************************************)
(* main.go: a sequence of lines, each a sequence of tokens ending with the *)
(* newline.  A token is text that the script never looks into: one         *)
(* character of the quoted literal, or a longer piece such as the          *)
(* "const appVersion" that startswith tests for.                           *)
(***************************************************************************)
DeclPrefix == <<"const appVersion">>

\* line.strip().startswith("const appVersion")
IsDeclLine(line) == StartsWith(Strip(line), DeclPrefix)

Chars_v1_0_0 == <<"v", "1", ".", "0", ".", "0">>

Chars_v0_9_9 == <<"v", "0", ".", "9", ".", "9">>

Chars_1_0_0 == <<"1", ".", "0", ".", "0">>

DeclLine(literal, comment) ==
    DeclPrefix \o <<" ", "=", " ", "\"">> \o literal \o <<"\"">>
        \o (IF comment THEN <<" ", "//", " Semantic version", "\n">> ELSE <<"\n">>)

PackageLine == <<"package main", "\n">>

FuncLine == <<"func main() {}", "\n">>

\* The contents of main.go the behaviours start from; FileMissing stands
\* for a main.go that does not exist.
FileMissing == << <<"<no such file>">> >>

SourceFiles ==
    { <<PackageLine, DeclLine(Chars_v1_0_0, TRUE), FuncLine>>,
      <<PackageLine, DeclLine(Chars_v0_9_9, FALSE), FuncLine>>,
      <<PackageLine, DeclLine(Chars_1_0_0, TRUE), FuncLine>>,
      <<PackageLine, FuncLine>>,
      FileMissing }

RECURSIVE FirstVersionLine(_, _)
\* The for loop of get_version_from_source from line n on: the index of
\* the first declaration line that holds a quote, 0 when there is none.
FirstVersionLine(lines, n) ==
    IF n > Len(lines) THEN 0
    ELSE IF IsDeclLine(lines[n]) /\ Len(Split(lines[n], "\"")) >= 2 THEN n
    ELSE FirstVersionLine(lines, n + 1)

\* ok = FALSE stands for the sys.exit(1) of the function.
get_version_from_source(file) ==
    IF file = FileMissing THEN VersionExit
    ELSE LET n == FirstVersionLine(file, 1)
         IN  IF n = 0 THEN VersionExit
             ELSE [ok |-> TRUE, val |-> Split(file[n], "\"")[2]]

RECURSIVE FirstDeclLine(_, _)
\* The for loop of update_version_in_source: the first declaration line.
FirstDeclLine(lines, n) ==
    IF n > Len(lines) THEN 0
    ELSE IF IsDeclLine(lines[n]) THEN n
    ELSE FirstDeclLine(lines, n + 1)

\* The line update_version_in_source writes in place of `line`.
NewDeclLine(line, new_version) ==
    IF \E k \in 1..Len(line) : line[k] = "//"
    THEN DeclPrefix \o <<" ", "=", " ", "\"">> \o new_version \o
         <<"\"", " ", "//", " Semantic version - bump this for releases", "\n">>
    ELSE DeclPrefix \o <<" ", "=", " ", "\"">> \o new_version \o <<"\"", "\n">>

\* ok = FALSE stands for the sys.exit(1) of the function (file untouched).
update_version_in_source(file, new_version) ==
    LET n == IF file = FileMissing THEN 0 ELSE FirstDeclLine(file, 1)
    IN  IF n = 0 THEN [ok |-> FALSE, val |-> file]
        ELSE [ok |-> TRUE,
              val |-> [file EXCEPT ![n] = NewDeclLine(file[n], new_version)]]

(***************************************************************************)
(* State.                                                                  *)
(***************************************************************************)
VARIABLES
    \* -- a call of parse_version or bump_version on its own
    text,            \* the version text handed in
    vop,             \* "none", "parse" or "bump": the function applied
    vkind,           \* the bump_type handed to bump_version
    vout,            \* what the function returned
    \* -- the process
    cmd,             \* args.command of the current invocation
    pc,              \* the step the process is at
    exitCode,        \* the exit status, -1 while it runs
    run,             \* invocations so far; also the clock of get_build_time
    \* -- the world the script acts on
    tree,            \* git's view of the working tree
    mainGo,          \* the lines of main.go
    commits,         \* the commits made, as <<message subject>>
    dist,            \* the output directory
    store,           \* the bucket: destination key -> content
    nextGrant,       \* the next upload grant the backend hands out
    \* -- locals of the commands
    version,         \* cmd_build
    build_time,      \* build_cross_platform
    commit,          \* build_cross_platform
    built_files,     \* build_cross_platform
    i,               \* index of the for loop the process is in
    auth_data,       \* upload_to_b2
    upload_data,     \* upload_to_b2
    current_version, \* cmd_bump
    bump_type,       \* cmd_bump
    new_version,     \* cmd_bump
    \* -- history
    start,           \* the world as the current invocation found it
    trace,           \* the external steps of the current invocation
    printed          \* the download URLs the current invocation printed

versionVars == <<text, vop, vkind, vout>>

processVars == <<cmd, pc, exitCode, run>>

worldVars == <<tree, mainGo, commits, dist, store, nextGrant>>

buildVars == <<version, build_time, commit, built_files, i>>

uploadVars == <<auth_data, upload_data>>

bumpVars == <<current_version, bump_type, new_version>>

historyVars == <<start, trace, printed>>

vars == <<versionVars, processVars, worldVars, buildVars, uploadVars, bumpVars,
          historyVars>>

(***************************************************************************)
(* The working tree as git reports it, the output directory, the bucket.   *)
(***************************************************************************)
TreeStates == [unstaged : BOOLEAN, staged : BOOLEAN, untracked : BOOLEAN]

CleanTree == [unstaged |-> FALSE, staged |-> FALSE, untracked |-> FALSE]

\* Exit code of `git diff --quiet`.
GitDiffQuiet(t) == IF t.unstaged THEN 1 ELSE 0

\* Exit code of `git diff --cached --quiet`.
GitDiffCachedQuiet(t) == IF t.staged THEN 1 ELSE 0

\* stdout of `git ls-files --others --exclude-standard`.
GitLsFilesOthers(t) == IF t.untracked THEN <<"untracked.txt">> ELSE <<>>

\* No output directory.
NoDist == [exists |-> FALSE, dirs |-> {}, files |-> <<>>]

\* An output directory just created.
EmptyDist == [exists |-> TRUE, dirs |-> {}, files |-> <<>>]

\* Path.exists() of a file of the output directory.
FileExists(d, path) == path \in DOMAIN d.files

\* open(path, "w").write(content)
WriteFile(d, path, content) ==
    [d EXCEPT !.files = (path :> content) @@ d.files]

\* Path.mkdir(parents=True, exist_ok=True) of a directory below dist_dir.
MkDir(d, path) == [d EXCEPT !.exists = TRUE, !.dirs = @ \cup {path}]

\* hashlib.sha256(content).hexdigest(): the digest names the content.
Sha256(content) == [sha256 |-> content]

\* What `go build` writes for a target: the target and the three -X values.
Binary(goos, goarch, ver, time, rev) ==
    [goos |-> goos, goarch |-> goarch, version |-> ver, buildTime |-> time,
     gitCommit |-> rev]

\* The line written to SHA256SUMS: f"{checksum}  {binary_path.name}\n"
SumsLine(checksum, name) == [digest |-> checksum, name |-> name]

\* One external step, as recorded in trace.
Event(op, arg, grant, ok) == [op |-> op, arg |-> arg, grant |-> grant, ok |-> ok]

Log(e) == trace' = Append(trace, e)

\* sys.exit(code)
Exit(code) == pc' = "exit" /\ exitCode' = code

(***************************************************************************)
(* Initial states.                                                         *)
(***************************************************************************)
NoLocals ==
    /\ version = <<>>
    /\ build_time = 0
    /\ commit = 0
    /\ built_files = <<>>
    /\ i = 0
    /\ auth_data = 0
    /\ upload_data = 0
    /\ current_version = <<>>
    /\ bump_type = ""
    /\ new_version = <<>>

\* The world as an invocation finds it.
Snapshot(t, m, c, d, s) ==
    [tree |-> t, mainGo |-> m, commits |-> c, dist |-> d, store |-> s]

\* Before the first invocation: no output directory, an empty bucket.
Init ==
    /\ text = <<>>
    /\ vop = "none"
    /\ vkind = ""
    /\ vout = VersionExit
    /\ cmd = "none"
    /\ pc = "idle"
    /\ exitCode = -1
    /\ run = 0
    /\ tree = CleanTree
    /\ mainGo \in SourceFiles
    /\ commits = <<>>
    /\ dist = NoDist
    /\ store = <<>>
    /\ nextGrant = 1
    /\ NoLocals
    /\ start = Snapshot(tree, mainGo, commits, dist, store)
    /\ trace = <<>>
    /\ printed = <<>>

(***************************************************************************)
(* main(): an invocation of the script with one of its three commands.     *)
(* The operator may have changed the working tree since the last one.      *)
(***************************************************************************)
Commands == {"build", "bump", "release"}

Main(c, t) ==
    /\ pc \in {"idle", "exit"}
    /\ run < MaxRuns
    /\ cmd' = c
    /\ pc' = "check_diff"
    /\ exitCode' = -1
    /\ run' = run + 1
    /\ tree' = t
    /\ version' = <<>>
    /\ build_time' = 0
    /\ commit' = 0
    /\ built_files' = <<>>
    /\ i' = 0
    /\ auth_data' = 0
    /\ upload_data' = 0
    /\ current_version' = <<>>
    /\ bump_type' = ""
    /\ new_version' = <<>>
    /\ start' = Snapshot(t, mainGo, commits, dist, store)
    /\ trace' = <<>>
    /\ printed' = <<>>
    /\ UNCHANGED <<versionVars, mainGo, commits, dist, store, nextGrant>>

(***************************************************************************)
(* check_lrc_clean, and the sys.exit(1) of cmd_build and cmd_bump when it  *)
(* returns False.                                                          *)
(***************************************************************************)
\* `if code != 0: return False` after git diff --quiet
DiffClean(code) == code = 0

\* `if code != 0: return False` after git diff --cached --quiet
CachedClean(code) == code = 0

\* UntrackedClean with the test of stdout left out.
UntrackedClean_Unchecked(stdout) == TRUE

\* `if stdout: return False` after git ls-files
UntrackedClean(stdout) == stdout = <<>>

CheckDiff ==
    /\ pc = "check_diff"
    /\ LET clean == DiffClean(GitDiffQuiet(tree))
       IN  /\ Log(Event("git diff --quiet", "", 0, clean))
           /\ IF clean
              THEN pc' = "check_cached" /\ UNCHANGED exitCode
              ELSE Exit(1)
    /\ UNCHANGED <<versionVars, cmd, run, worldVars, buildVars, uploadVars,
                   bumpVars, start, printed>>

CheckCached ==
    /\ pc = "check_cached"
    /\ LET clean == CachedClean(GitDiffCachedQuiet(tree))
       IN  /\ Log(Event("git diff --cached --quiet", "", 0, clean))
           /\ IF clean
              THEN pc' = "check_untracked" /\ UNCHANGED exitCode
              ELSE Exit(1)
    /\ UNCHANGED <<versionVars, cmd, run, worldVars, buildVars, uploadVars,
                   bumpVars, start, printed>>

\* run_command exits when git ls-files itself fails (gitOk = FALSE).
CheckUntracked(gitOk) ==
    /\ pc = "check_untracked"
    /\ LET clean == gitOk /\ UntrackedClean(GitLsFilesOthers(tree))
       IN  /\ Log(Event("git ls-files --others", "", 0, clean))
           /\ IF clean
              THEN pc' = "read_version" /\ UNCHANGED exitCode
              ELSE Exit(1)
    /\ UNCHANGED <<versionVars, cmd, run, worldVars, buildVars, uploadVars,
                   bumpVars, start, printed>>

(***************************************************************************)
(* get_version_from_source, as cmd_build and cmd_bump call it.             *)
(***************************************************************************)
GetVersionFromSource ==
    /\ pc = "read_version"
    /\ LET r == get_version_from_source(mainGo)
       IN  /\ Log(Event("read main.go", Join(r.val), 0, r.ok))
           /\ IF ~r.ok
              THEN Exit(1) /\ UNCHANGED <<version, current_version>>
              ELSE IF cmd = "bump"
              THEN /\ current_version' = r.val
                   /\ pc' = "choose"
                   /\ UNCHANGED <<version, exitCode>>
              ELSE /\ version' = r.val
                   /\ pc' = "commit_id"
                   /\ UNCHANGED <<current_version, exitCode>>
    /\ UNCHANGED <<versionVars, cmd, run, worldVars, build_time, commit,
                   built_files, i, uploadVars, bump_type, new_version, start,
                   printed>>

(***************************************************************************)
(* cmd_build and build_cross_platform.                                     *)
(***************************************************************************)
\* get_commit_id in cmd_build (its result is only logged).
GetCommitId(gitOk) ==
    /\ pc = "commit_id"
    /\ Log(Event("git rev-parse", "", 0, gitOk))
    /\ IF gitOk THEN pc' = "clean" /\ UNCHANGED exitCode ELSE Exit(1)
    /\ UNCHANGED <<versionVars, cmd, run, worldVars, buildVars, uploadVars,
                   bumpVars, start, printed>>

\* RecreateDist without the rmtree: mkdir(exist_ok=True) over what is there.
RecreateDist_KeepOld(d) == IF d.exists THEN d ELSE EmptyDist

\* The output directory after `if dist_dir.exists(): shutil.rmtree(dist_dir)`
\* and `dist_dir.mkdir(parents=True)`.
RecreateDist(d) == EmptyDist

\* shutil.rmtree(dist_dir) when it exists, then dist_dir.mkdir.
CleanDist ==
    /\ pc = "clean"
    /\ dist' = RecreateDist(dist)
    /\ trace' = trace
                \o (IF dist.exists
                    THEN <<Event("rmtree", BUILD_OUTPUT_DIR, 0, TRUE)>>
                    ELSE <<>>)
                \o <<Event("mkdir", BUILD_OUTPUT_DIR, 0, TRUE)>>
    /\ pc' = "build_meta"
    /\ UNCHANGED <<versionVars, cmd, exitCode, run, tree, mainGo, commits,
                   store, nextGrant, buildVars, uploadVars, bumpVars, start,
                   printed>>

\* get_build_time and get_commit_id in build_cross_platform.
BuildMeta(gitOk) ==
    /\ pc = "build_meta"
    /\ Log(Event("git rev-parse", "", 0, gitOk))
    /\ build_time' = run
    /\ IF gitOk
       THEN /\ commit' = Len(commits)
            /\ built_files' = <<>>
            /\ i' = 1
            /\ pc' = "compile"
            /\ UNCHANGED exitCode
       ELSE Exit(1) /\ UNCHANGED <<commit, built_files, i>>
    /\ UNCHANGED <<versionVars, cmd, run, worldVars, version, uploadVars,
                   bumpVars, start, printed>>

\* platform_dir = f"{goos}-{goarch}"
PlatformDir(goos, goarch) == goos \o "-" \o goarch

\* binary_name = "lrc.exe" if goos == "windows" else "lrc"
BinaryName(goos) == IF goos = "windows" THEN "lrc.exe" ELSE "lrc"

\* output_path = self.dist_dir / platform_dir / binary_name
OutputPath(goos, goarch) ==
    PathJoin(PathJoin(dist_dir, PlatformDir(goos, goarch)), BinaryName(goos))

\* What the for loop over PLATFORMS does after a successful compile of the
\* n-th target: the step the process is at next.
AfterCompile(n) == IF n = Len(PLATFORMS) THEN "checksums" ELSE "compile"

\* AfterGoBuild that also writes SHA256SUMS, from the checksum that
\* build_for_platform computes right after a successful compile.
AfterGoBuild_WithManifest(d, output_path, content, returncode) ==
    LET made == [d EXCEPT !.exists = TRUE,
                          !.dirs = @ \cup {SubSeq(output_path, 1, Len(output_path) - 1)}]
    IN  IF returncode = 0
        THEN [made EXCEPT !.files =
                 (output_path :> content)
                 @@ (Append(SubSeq(output_path, 1, Len(output_path) - 1), "SHA256SUMS")
                       :> [digest |-> [sha256 |-> content],
                           name |-> output_path[Len(output_path)]])
                 @@ made.files]
        ELSE made

\* The output directory after build_for_platform has made the platform
\* directory and `go build` has ended with returncode.
AfterGoBuild(d, output_path, content, returncode) ==
    LET made == MkDir(d, PathParent(output_path))
    IN  IF returncode = 0 THEN WriteFile(made, output_path, content) ELSE made

\* One turn of the for loop over PLATFORMS: build_for_platform for target i
\* and the append to built_files.  returncode is that of `go build`.
BuildForPlatform(returncode) ==
    /\ pc = "compile"
    /\ LET goos         == PLATFORMS[i][1]
           goarch       == PLATFORMS[i][2]
           platform_dir == PlatformDir(goos, goarch)
           output_path  == OutputPath(goos, goarch)
       IN  /\ Log(Event("go build", platform_dir, 0, returncode = 0))
           /\ dist' = AfterGoBuild(dist, output_path,
                                   Binary(goos, goarch, Join(version),
                                          build_time, commit),
                                   returncode)
           /\ IF returncode # 0
              THEN Exit(1) /\ UNCHANGED <<built_files, i>>
              ELSE /\ built_files' =
                          Append(built_files, <<output_path, platform_dir>>)
                   /\ pc' = AfterCompile(i)
                   /\ i' = IF i = Len(PLATFORMS) THEN 1 ELSE i + 1
                   /\ UNCHANGED exitCode
    /\ UNCHANGED <<versionVars, cmd, run, tree, mainGo, commits, store,
                   nextGrant, version, build_time, commit, uploadVars,
                   bumpVars, start, printed>>

\* sums_file = binary_path.parent / "SHA256SUMS"
SumsFile(binary_path) == PathJoin(PathParent(binary_path), "SHA256SUMS")

\* ChecksumOf that reads the first built file for every manifest.
ChecksumOf_FirstBuilt(d, binary_path) ==
    Sha256(d.files[OutputPath(PLATFORMS[1][1], PLATFORMS[1][2])])

\* The checksum the second loop of build_cross_platform computes for a
\* built file: the digest of what is at binary_path now.
ChecksumOf(d, binary_path) == Sha256(d.files[binary_path])

\* One turn of the loop that writes SHA256SUMS; after the last one
\* build_cross_platform returns, and cmd_build with it.
WriteChecksum ==
    /\ pc = "checksums"
    /\ LET binary_path == built_files[i][1]
           sums_file   == SumsFile(binary_path)
           checksum    == ChecksumOf(dist, binary_path)
       IN  /\ dist' = WriteFile(dist, sums_file,
                                SumsLine(checksum, PathName(binary_path)))
           /\ Log(Event("write SHA256SUMS", built_files[i][2], 0, TRUE))
    /\ IF i < Len(built_files)
       THEN i' = i + 1 /\ UNCHANGED <<pc, exitCode>>
       ELSE IF cmd = "build"
       THEN Exit(0) /\ UNCHANGED i
       ELSE pc' = "authorize" /\ UNCHANGED <<i, exitCode>>
    /\ UNCHANGED <<versionVars, cmd, run, tree, mainGo, commits, store,
                   nextGrant, version, build_time, commit, built_files,
                   uploadVars, bumpVars, start, printed>>

(***************************************************************************)
(* upload_to_b2 and the three B2 requests.  status is the HTTP status the  *)
(* backend answers with; a request that times out raises, which ends the   *)
(* process with exit code 1 as a status other than 200 does.  A request    *)
(* that fails leaves the bucket as it was.                                 *)
(***************************************************************************)
HttpStatuses == {200, 503}

\* The destination key without its version component.
B2FileName_NoVersion(ver, platform_dir, name) ==
    B2_UPLOAD_PATH_PREFIX \o "/" \o platform_dir \o "/" \o name

\* f"{B2_UPLOAD_PATH_PREFIX}/{version}/{platform_dir}/{name}"
B2FileName(ver, platform_dir, name) ==
    B2_UPLOAD_PATH_PREFIX \o "/" \o ver \o "/" \o platform_dir \o "/" \o name

\* download_base of upload_to_b2
DownloadBase(ver) ==
    "https://" \o DownloadHost \o "/file/" \o B2_BUCKET_NAME \o "/"
        \o B2_UPLOAD_PATH_PREFIX \o "/" \o ver

\* The line printed for a platform: f"  {download_base}/{platform_dir}/"
PlatformUrl(ver, platform_dir) == DownloadBase(ver) \o "/" \o platform_dir \o "/"

\* UploadFailed with the status of the response ignored.
UploadFailed_Ignored(status) == FALSE

\* `if response.status_code != 200: ... sys.exit(1)` of upload_file_to_b2
UploadFailed(status) == status # 200

\* StoreAfterUpload that leaves a key the bucket already holds as it is.
StoreAfterUpload_KeepExisting(s, b2_file_name, file_data, status) ==
    IF status = 200 /\ b2_file_name \notin DOMAIN s
    THEN (b2_file_name :> file_data) @@ s
    ELSE s

\* The bucket after the POST of upload_file_to_b2: with status 200 the file
\* name holds the posted data, whatever it held before.
StoreAfterUpload(s, b2_file_name, file_data, status) ==
    IF status = 200 THEN (b2_file_name :> file_data) @@ s ELSE s

\* The step after the n-th platform of `total` is finished.
NextPlatform(n, total) == IF n < total THEN "grant_binary" ELSE "print_urls"

\* AfterBinaryUpload that uploads SHA256SUMS with the upload URL it
\* already holds.
AfterBinaryUpload_ReuseGrant(d, binary_path, n, total) ==
    IF FileExists(d, Append(SubSeq(binary_path, 1, Len(binary_path) - 1), "SHA256SUMS"))
    THEN "upload_sums"
    ELSE NextPlatform(n, total)

\* AfterBinaryUpload that goes on to the next platform without SHA256SUMS.
AfterBinaryUpload_SkipSums(d, binary_path, n, total) == NextPlatform(n, total)

\* The step after the binary of the n-th platform is uploaded:
\* `if sums_file.exists()` asks for a fresh upload URL for SHA256SUMS.
AfterBinaryUpload(d, binary_path, n, total) ==
    IF FileExists(d, SumsFile(binary_path))
    THEN "grant_sums"
    ELSE NextPlatform(n, total)

\* AuthorizeFailed with the status of the response ignored.
AuthorizeFailed_Ignored(status) == FALSE

\* `if response.status_code != 200: ... sys.exit(1)` of authorize_b2
AuthorizeFailed(status) == status # 200

\* authorize_b2; the app key and the bucket id are non-empty constants, so
\* neither `if not app_key` nor `if not bucket_id` exits.
AuthorizeB2(status) ==
    /\ pc = "authorize"
    /\ Log(Event("b2_authorize_account", "", 0, status = 200))
    /\ IF AuthorizeFailed(status) \/ B2_APP_KEY = "" \/ B2_BUCKET_ID = ""
       THEN Exit(1) /\ UNCHANGED <<auth_data, i>>
       ELSE /\ auth_data' = run
            /\ i' = 1
            /\ pc' = IF built_files = <<>> THEN "print_urls" ELSE "grant_binary"
            /\ UNCHANGED exitCode
    /\ UNCHANGED <<versionVars, cmd, run, worldVars, version, build_time,
                   commit, built_files, upload_data, bumpVars, start, printed>>

\* GrantFailed with the status of the response ignored.
GrantFailed_Ignored(status) == FALSE

\* `if response.status_code != 200: ... sys.exit(1)` of get_upload_url
GrantFailed(status) == status # 200

\* get_upload_url: the backend hands out a grant it has not handed out.
GetUploadUrl(at, next, status) ==
    /\ pc = at
    /\ Log(Event("b2_get_upload_url", "", IF status = 200 THEN nextGrant ELSE 0,
                 status = 200))
    /\ IF GrantFailed(status)
       THEN Exit(1) /\ UNCHANGED <<upload_data, nextGrant>>
       ELSE /\ upload_data' = nextGrant
            /\ nextGrant' = nextGrant + 1
            /\ pc' = next
            /\ UNCHANGED exitCode
    /\ UNCHANGED <<versionVars, cmd, run, tree, mainGo, commits, dist, store,
                   buildVars, auth_data, bumpVars, start, printed>>

\* "Get fresh upload URL for binary"
GetUploadUrlBinary(status) == GetUploadUrl("grant_binary", "upload_binary", status)

\* The get_upload_url before SHA256SUMS
GetUploadUrlSums(status) == GetUploadUrl("grant_sums", "upload_sums", status)

\* upload_file_to_b2 of the binary of platform i.
UploadBinary(status) ==
    /\ pc = "upload_binary"
    /\ LET binary_path  == built_files[i][1]
           platform_dir == built_files[i][2]
           b2_file_name == B2FileName(Join(version), platform_dir,
                                      PathName(binary_path))
           next         == AfterBinaryUpload(dist, binary_path, i,
                                             Len(built_files))
       IN  /\ Log(Event("b2_upload_file", b2_file_name, upload_data,
                        status = 200))
           /\ store' = StoreAfterUpload(store, b2_file_name,
                                        dist.files[binary_path], status)
           /\ IF UploadFailed(status)
              THEN Exit(1) /\ UNCHANGED i
              ELSE /\ pc' = next
                   /\ i' = IF next = "grant_binary" THEN i + 1 ELSE i
                   /\ UNCHANGED exitCode
    /\ UNCHANGED <<versionVars, cmd, run, tree, mainGo, commits, dist,
                   nextGrant, version, build_time, commit, built_files,
                   uploadVars, bumpVars, start, printed>>

\* upload_file_to_b2 of the SHA256SUMS of platform i.
UploadSums(status) ==
    /\ pc = "upload_sums"
    /\ LET binary_path  == built_files[i][1]
           platform_dir == built_files[i][2]
           sums_file    == SumsFile(binary_path)
           b2_sums_name == B2FileName(Join(version), platform_dir, "SHA256SUMS")
           next         == NextPlatform(i, Len(built_files))
       IN  /\ Log(Event("b2_upload_file", b2_sums_name, upload_data,
                        status = 200))
           /\ store' = StoreAfterUpload(store, b2_sums_name,
                                        dist.files[sums_file], status)
           /\ IF UploadFailed(status)
              THEN Exit(1) /\ UNCHANGED i
              ELSE /\ pc' = next
                   /\ i' = IF next = "grant_binary" THEN i + 1 ELSE i
                   /\ UNCHANGED exitCode
    /\ UNCHANGED <<versionVars, cmd, run, tree, mainGo, commits, dist,
                   nextGrant, version, build_time, commit, built_files,
                   uploadVars, bumpVars, start, printed>>

\* The download URLs upload_to_b2 logs, then "Release complete!" and the
\* return of main.
PrintUrls ==
    /\ pc = "print_urls"
    /\ printed' = <<DownloadBase(Join(version)) \o "/">>
                  \o [n \in 1..Len(built_files) |->
                        PlatformUrl(Join(version), built_files[n][2])]
    /\ Exit(0)
    /\ UNCHANGED <<versionVars, cmd, run, worldVars, buildVars, uploadVars,
                   bumpVars, start, trace>>

(***************************************************************************)
(* cmd_bump after the preflight and the read of the current version.       *)
(***************************************************************************)
\* The answers the `while True` loop accepts, after strip().lower().
BumpChoices == {"1", "patch", "2", "minor", "3", "major"}

\* The bump type the loop leaves with for an accepted answer.
BumpTypeOf(choice) ==
    CASE choice \in {"1", "patch"} -> "patch"
      [] choice \in {"2", "minor"} -> "minor"
      [] choice \in {"3", "major"} -> "major"

\* The lines the operator may type at the confirmation, as input() returns
\* them (character by character, without the newline).
ConfirmAnswers ==
    {<<"y">>, <<"Y">>, <<" ", "y", " ">>, <<"n">>, <<>>, <<"y", "e", "s">>}

\* input() raising EOFError: the terminal gave no line.
EndOfInput == <<"<EOF>">>

\* The prompt loop up to the first accepted answer, then bump_version.
\* choice = "EOF" stands for input() raising EOFError (a traceback, exit 1).
ChooseBump(choice) ==
    /\ pc = "choose"
    /\ Log(Event("input choice", choice, 0, choice # "EOF"))
    /\ IF choice = "EOF"
       THEN Exit(1) /\ UNCHANGED <<bump_type, new_version>>
       ELSE LET r == bump_version(current_version, BumpTypeOf(choice))
            IN  /\ bump_type' = BumpTypeOf(choice)
                /\ IF r.ok
                   THEN /\ new_version' = r.val
                        /\ pc' = "confirm"
                        /\ UNCHANGED exitCode
                   ELSE Exit(1) /\ UNCHANGED new_version
    /\ UNCHANGED <<versionVars, cmd, run, worldVars, buildVars, uploadVars,
                   current_version, start, printed>>

\* Declined that aborts on an explicit "n" only.
Declined_OnlyExplicitNo(confirm) == confirm = <<"n">>

\* `if confirm != "y":`
Declined(confirm) == confirm # <<"y">>

\* confirm = input(...).strip().lower(), then
\* `if confirm != "y": print("Aborted"); sys.exit(0)`.  An EOFError ends
\* the process with a traceback and exit code 1.
Confirm(answer) ==
    /\ pc = "confirm"
    /\ LET confirm == Lower(Strip(answer))
       IN  /\ Log(Event("input confirm", Join(answer), 0,
                        answer # EndOfInput /\ ~Declined(confirm)))
           /\ IF answer = EndOfInput THEN Exit(1)
              ELSE IF Declined(confirm) THEN Exit(0)
              ELSE pc' = "write" /\ UNCHANGED exitCode
    /\ UNCHANGED <<versionVars, cmd, run, worldVars, buildVars, uploadVars,
                   bumpVars, start, printed>>

\* update_version_in_source(new_version); the rewritten file is an
\* unstaged change.
UpdateVersionInSource ==
    /\ pc = "write"
    /\ LET r == update_version_in_source(mainGo, new_version)
       IN  /\ Log(Event("write main.go", Join(new_version), 0, r.ok))
           /\ mainGo' = r.val
           /\ IF r.ok
              THEN /\ tree' = [tree EXCEPT !.unstaged = TRUE]
                   /\ pc' = "git_add"
                   /\ UNCHANGED exitCode
              ELSE Exit(1) /\ UNCHANGED tree
    /\ UNCHANGED <<versionVars, cmd, run, commits, dist, store, nextGrant,
                   buildVars, uploadVars, bumpVars, start, printed>>

\* RunCommandExits with the exit code of the command never looked at.
RunCommandExits_NeverChecks(check, gitOk) == FALSE

\* `if check and result.returncode != 0: ... sys.exit(1)` of run_command;
\* gitOk tells whether the command ended with exit code 0.
RunCommandExits(check, gitOk) == check /\ ~gitOk

\* run_command(["git", "add", "main.go"])
GitAdd(gitOk) ==
    /\ pc = "git_add"
    /\ Log(Event("git add", "main.go", 0, gitOk))
    /\ tree' = IF gitOk
               THEN [tree EXCEPT !.unstaged = FALSE, !.staged = TRUE]
               ELSE tree
    /\ IF RunCommandExits(TRUE, gitOk)
       THEN Exit(1)
       ELSE pc' = "attest" /\ UNCHANGED exitCode
    /\ UNCHANGED <<versionVars, cmd, run, mainGo, commits, dist, store,
                   nextGrant, buildVars, uploadVars, bumpVars, start, printed>>

\* run_command(["git", "lrc", "review", "--skip"])
LrcReviewSkip(gitOk) ==
    /\ pc = "attest"
    /\ Log(Event("git lrc review --skip", "", 0, gitOk))
    /\ IF RunCommandExits(TRUE, gitOk)
       THEN Exit(1)
       ELSE pc' = "git_commit" /\ UNCHANGED exitCode
    /\ UNCHANGED <<versionVars, cmd, run, worldVars, buildVars, uploadVars,
                   bumpVars, start, printed>>

\* run_command(["git", "commit", "-m", ...]), then the return of main.
GitCommit(gitOk) ==
    /\ pc = "git_commit"
    /\ Log(Event("git commit", Join(new_version), 0, gitOk))
    /\ commits' = IF gitOk
                  THEN Append(commits,
                              <<Join(current_version), Join(new_version)>>)
                  ELSE commits
    /\ tree' = IF gitOk THEN [tree EXCEPT !.staged = FALSE] ELSE tree
    /\ IF RunCommandExits(TRUE, gitOk) THEN Exit(1) ELSE Exit(0)
    /\ UNCHANGED <<versionVars, cmd, run, mainGo, dist, store, nextGrant,
                   buildVars, uploadVars, bumpVars, start, printed>>

(***************************************************************************)
(* The script: any number of invocations up to MaxRuns.                    *)
(***************************************************************************)
Next ==
    \/ \E c \in Commands, t \in TreeStates : Main(c, t)
    \/ CheckDiff
    \/ CheckCached
    \/ \E gitOk \in BOOLEAN : CheckUntracked(gitOk)
    \/ GetVersionFromSource
    \/ \E gitOk \in BOOLEAN : GetCommitId(gitOk)
    \/ CleanDist
    \/ \E gitOk \in BOOLEAN : BuildMeta(gitOk)
    \/ \E returncode \in {0, 1} : BuildForPlatform(returncode)
    \/ WriteChecksum
    \/ \E status \in HttpStatuses : AuthorizeB2(status)
    \/ \E status \in HttpStatuses : GetUploadUrlBinary(status)
    \/ \E status \in HttpStatuses : UploadBinary(status)
    \/ \E status \in HttpStatuses : GetUploadUrlSums(status)
    \/ \E status \in HttpStatuses : UploadSums(status)
    \/ PrintUrls
    \/ \E choice \in BumpChoices \cup {"EOF"} : ChooseBump(choice)
    \/ \E answer \in ConfirmAnswers \cup {EndOfInput} : Confirm(answer)
    \/ UpdateVersionInSource
    \/ \E gitOk \in BOOLEAN : GitAdd(gitOk)
    \/ \E gitOk \in BOOLEAN : LrcReviewSkip(gitOk)
    \/ \E gitOk \in BOOLEAN : GitCommit(gitOk)

Spec == Init /\ [][Next]_vars

(***************************************************************************)
(* parse_version and bump_version on their own, applied to every text of   *)
(* at most MaxLen characters of Alphabet.                                  *)
(***************************************************************************)
Texts == UNION {[1..n -> Alphabet] : n \in 0..MaxLen}

BumpKinds == {"patch", "minor", "major", "micro"}

InitVersion ==
    /\ text \in Texts
    /\ vop = "none"
    /\ vkind = ""
    /\ vout = VersionExit
    /\ cmd = "none"
    /\ pc = "idle"
    /\ exitCode = -1
    /\ run = 0
    /\ tree = CleanTree
    /\ mainGo = FileMissing
    /\ commits = <<>>
    /\ dist = NoDist
    /\ store = <<>>
    /\ nextGrant = 1
    /\ NoLocals
    /\ start = Snapshot(tree, mainGo, commits, dist, store)
    /\ trace = <<>>
    /\ printed = <<>>

ParseVersion ==
    /\ vop = "none"
    /\ vop' = "parse"
    /\ vout' = parse_version(text)
    /\ UNCHANGED <<text, vkind, processVars, worldVars, buildVars, uploadVars,
                   bumpVars, historyVars>>

BumpVersion(kind) ==
    /\ vop = "none"
    /\ vop' = "bump"
    /\ vkind' = kind
    /\ vout' = bump_version(text, kind)
    /\ UNCHANGED <<text, processVars, worldVars, buildVars, uploadVars,
                   bumpVars, historyVars>>

NextVersion ==
    \/ ParseVersion
    \/ \E kind \in BumpKinds : BumpVersion(kind)

SpecVersion == InitVersion /\ [][NextVersion]_vars

(***************************************************************************)
(* get_version_from_source and update_version_in_source on their own,      *)
(* applied to every main.go of at most MaxLines lines of SourceLines.      *)
(***************************************************************************)
\* The declaration as the repository writes it, with the comment that
\* update_version_in_source writes.
CanonicalDeclLine(literal) ==
    DeclPrefix \o <<" ", "=", " ", "\"">> \o literal \o
        <<"\"", " ", "//", " Semantic version - bump this for releases", "\n">>

\* A declaration indented by a tab.
IndentedDeclLine(literal) == <<"\t">> \o DeclLine(literal, FALSE)

\* `const appVersionMajor = 1`: it starts with "const appVersion" and holds
\* no quote.
MajorLine == <<"const appVersion", "Major", " ", "=", " ", "1", "\n">>

SourceLines ==
    { PackageLine,
      CanonicalDeclLine(Chars_v1_0_0),
      DeclLine(Chars_v1_0_0, TRUE),
      DeclLine(Chars_v0_9_9, FALSE),
      IndentedDeclLine(Chars_v1_0_0),
      MajorLine }

SourceContents ==
    UNION {[1..n -> SourceLines] : n \in 0..MaxLines} \cup {FileMissing}

\* The texts cmd_bump hands to update_version_in_source: results of
\* bump_version.
NewVersions ==
    {bump_version(Chars_v1_0_0, kind).val : kind \in {"patch", "major"}}

InitSource ==
    /\ text = <<>>
    /\ vop = "none"
    /\ vkind = ""
    /\ vout = VersionExit
    /\ cmd = "none"
    /\ pc = "idle"
    /\ exitCode = -1
    /\ run = 0
    /\ tree = CleanTree
    /\ mainGo \in SourceContents
    /\ commits = <<>>
    /\ dist = NoDist
    /\ store = <<>>
    /\ nextGrant = 1
    /\ NoLocals
    /\ start = Snapshot(tree, mainGo, commits, dist, store)
    /\ trace = <<>>
    /\ printed = <<>>

\* get_version_from_source() on the file as found.
ReadSource ==
    /\ vop = "none"
    /\ vop' = "read"
    /\ vout' = get_version_from_source(mainGo)
    /\ UNCHANGED <<text, vkind, processVars, worldVars, buildVars, uploadVars,
                   bumpVars, historyVars>>

\* update_version_in_source(v) on the file as found; vout.ok tells whether
\* it returned.
WriteSource(v) ==
    /\ vop = "none"
    /\ vop' = "write"
    /\ new_version' = v
    /\ LET r == update_version_in_source(mainGo, v)
       IN  /\ mainGo' = r.val
           /\ vout' = [ok |-> r.ok, val |-> v]
    /\ UNCHANGED <<text, vkind, processVars, tree, commits, dist, store,
                   nextGrant, buildVars, uploadVars, current_version,
                   bump_type, historyVars>>

\* get_version_from_source() after update_version_in_source has returned.
ReadBack ==
    /\ vop = "write"
    /\ vout.ok
    /\ vop' = "readback"
    /\ vout' = get_version_from_source(mainGo)
    /\ UNCHANGED <<text, vkind, processVars, worldVars, buildVars, uploadVars,
                   bumpVars, historyVars>>

NextSource ==
    \/ ReadSource
    \/ \E v \in NewVersions : WriteSource(v)
    \/ ReadBack

SpecSource == InitSource /\ [][NextSource]_vars

(***************************************************************************)
(* Properties.                                                             *)
(***************************************************************************)
\* The steps of check_lrc_clean, as they appear in trace.
PreflightOps ==
    {"git diff --quiet", "git diff --cached --quiet", "git ls-files --others"}

\* The requests to the storage backend, as they appear in trace.
StorageOps == {"b2_authorize_account", "b2_get_upload_url", "b2_upload_file"}

\* The indices of the events of trace with operation op.
EventsOf(op) == {k \in 1..Len(trace) : trace[k].op = op}

\* The least element of a non-empty set of integers.
Min(S) == CHOOSE x \in S : \A y \in S : x <= y

\* C1: when the working tree is dirty at the start of an invocation (an
\* unstaged change, a staged change or an untracked file), build, bump and
\* release never get past check_lrc_clean and end with exit code 1: the
\* only external steps are the git queries of the preflight, and the
\* output directory, main.go, the index, the commits and the bucket are as
\* the invocation found them.
C1_DirtyTreeFailsBeforeAnyEffect ==
    (cmd \in Commands /\ start.tree # CleanTree) =>
        /\ pc \in {"check_diff", "check_cached", "check_untracked", "exit"}
        /\ (pc = "exit" => exitCode = 1)
        /\ \A k \in 1..Len(trace) : trace[k].op \in PreflightOps
        /\ dist = start.dist
        /\ mainGo = start.mainGo
        /\ tree = start.tree
        /\ commits = start.commits
        /\ store = start.store
        /\ printed = <<>>

\* A release that found only an untracked file, with an output directory
\* and a bucket left by an earlier release, has exited.
C1_Witness ==
    /\ cmd = "release"
    /\ start.tree = [unstaged |-> FALSE, staged |-> FALSE, untracked |-> TRUE]
    /\ start.dist.exists
    /\ DOMAIN start.store # {}
    /\ pc = "exit"
    /\ exitCode = 1

\* C2: for every text parse_version accepts, with components X, Y, Z,
\* bump_version returns the canonical text of (X, Y, Z+1) for "patch", of
\* (X, Y+1, 0) for "minor" and of (X+1, 0, 0) for "major", which parses
\* back to that triple; for any other bump type it returns no version.
C2_BumpIncrements ==
    (vop = "bump" /\ parse_version(text).ok) =>
        LET X == parse_version(text).val[1]
            Y == parse_version(text).val[2]
            Z == parse_version(text).val[3]
            want == CASE vkind = "patch" -> <<X, Y, Z + 1>>
                      [] vkind = "minor" -> <<X, Y + 1, 0>>
                      [] vkind = "major" -> <<X + 1, 0, 0>>
                      [] OTHER -> <<>>
        IN  IF vkind \in {"patch", "minor", "major"}
            THEN /\ vout.ok
                 /\ parse_version(vout.val) = [ok |-> TRUE, val |-> want]
                 /\ vout.val = <<"v">> \o IntStr(want[1]) \o <<".">>
                                  \o IntStr(want[2]) \o <<".">> \o IntStr(want[3])
            ELSE ~vout.ok

\* bump_version("v0.1.1", "minor") has returned "v0.2.0".
C2_Witness ==
    /\ vop = "bump"
    /\ vkind = "minor"
    /\ text = <<"v", "0", ".", "1", ".", "1">>
    /\ vout = [ok |-> TRUE, val |-> <<"v", "0", ".", "2", ".", "0">>]

\* Text that int() accepts: optional whitespace, an optional sign, digits
\* with single underscores between them, optional whitespace.
IsIntegerText(c) ==
    \E s \in 1..Len(c), e \in 1..Len(c) :
        /\ s <= e
        /\ c[s] \in DigitSet
        /\ c[e] \in DigitSet
        /\ \A k \in s..e : c[k] \in DigitSet \/ (c[k] = "_" /\ c[k + 1] # "_")
        /\ \A k \in 1..(s - 1) :
               c[k] \in Whitespace \/ (k = s - 1 /\ c[k] \in {"+", "-"})
        /\ \A k \in (e + 1)..Len(c) : c[k] \in Whitespace

\* Text with the leading v whose remainder holds exactly two dots, with an
\* integer before, between and after them.
IsVersionText(t) ==
    /\ t # <<>>
    /\ t[1] = "v"
    /\ LET dots == {k \in 2..Len(t) : t[k] = "."}
       IN  /\ Cardinality(dots) = 2
           /\ LET d1 == CHOOSE k \in dots : \A j \in dots : k <= j
                  d2 == CHOOSE k \in dots : \A j \in dots : k >= j
              IN  /\ IsIntegerText(SubSeq(t, 2, d1 - 1))
                  /\ IsIntegerText(SubSeq(t, d1 + 1, d2 - 1))
                  /\ IsIntegerText(SubSeq(t, d2 + 1, Len(t)))

\* C3: parse_version returns no version for every text that lacks the
\* leading v, or whose remainder does not split on "." into exactly three
\* components, or that has a component int() does not accept; it returns
\* a version for every other text.
C3_ParseFailsExactlyOnMalformed ==
    vop = "parse" => (vout.ok <=> IsVersionText(text))

\* parse_version has rejected "v1.0" (two components).
C3_Witness ==
    /\ vop = "parse"
    /\ text = <<"v", "1", ".", "0">>
    /\ ~vout.ok

\* C4: for every text parse_version accepts, formatting the parsed triple
\* as v<major>.<minor>.<patch> and parsing that again gives the same triple.
C4_RoundTrip ==
    (vop = "parse" /\ vout.ok) =>
        parse_version(FormatVersion(vout.val[1], vout.val[2], vout.val[3])) = vout

\* parse_version has accepted "v01.1.0", which is not the canonical text
\* of its triple.
C4_Witness ==
    /\ vop = "parse"
    /\ text = <<"v", "0", "1", ".", "1", ".", "0">>
    /\ vout = [ok |-> TRUE, val |-> <<1, 1, 0>>]

\* The platform directories and binary names of the fixed target list, in
\* its declaration order.
ExpectedDirs ==
    <<"linux-amd64", "linux-arm64", "darwin-amd64", "darwin-arm64",
      "windows-amd64">>

ExpectedNames == <<"lrc", "lrc", "lrc", "lrc", "lrc.exe">>

\* The steps of upload_to_b2.
UploadSteps ==
    {"authorize", "grant_binary", "upload_binary", "grant_sums", "upload_sums",
     "print_urls"}

\* build_cross_platform has returned in the current invocation.
BuildCompleted ==
    \/ cmd = "build" /\ pc = "exit" /\ exitCode = 0
    \/ cmd = "release" /\ (pc \in UploadSteps
                           \/ EventsOf("b2_authorize_account") # {})

\* C5: a build that started from a clean tree and whose compiles all
\* succeeded ends with exactly one (artifact path, platform dir) pair per
\* target, in the order of the target list, and with exactly one
\* SHA256SUMS per platform directory, which holds the digest of the
\* artifact of that directory and the artifact's file name; the output
\* directory holds nothing else.
C5_BuildProducesArtifactsAndManifests ==
    BuildCompleted =>
        /\ start.tree = CleanTree
        /\ built_files =
               [n \in 1..5 |->
                   << <<"dist", ExpectedDirs[n], ExpectedNames[n]>>, ExpectedDirs[n] >>]
        /\ DOMAIN dist.files =
               {<<"dist", ExpectedDirs[n], ExpectedNames[n]>> : n \in 1..5}
               \cup {<<"dist", ExpectedDirs[n], "SHA256SUMS">> : n \in 1..5}
        /\ \A n \in 1..5 :
               dist.files[<<"dist", ExpectedDirs[n], "SHA256SUMS">>] =
                   [digest |-> Sha256(dist.files[<<"dist", ExpectedDirs[n],
                                                    ExpectedNames[n]>>]),
                    name |-> ExpectedNames[n]]
        /\ \A n, m \in 1..5 :
               n # m => dist.files[<<"dist", ExpectedDirs[n], ExpectedNames[n]>>]
                        # dist.files[<<"dist", ExpectedDirs[m], ExpectedNames[m]>>]

\* A second build, over the output directory of an earlier one, has ended
\* with exit code 0.
C5_Witness ==
    /\ cmd = "build"
    /\ pc = "exit"
    /\ exitCode = 0
    /\ start.dist.exists
    /\ Len(built_files) = 5
    /\ Cardinality(EventsOf("go build")) = 5

\* C6: once the compiler has failed on a target, nothing follows: the
\* failed compile is the last external step of the invocation, which has
\* exited with code 1; no SHA256SUMS has been written (the output directory
\* holds none), and no storage request has been issued.
C6_CompileFailureAborts ==
    \A k \in 1..Len(trace) :
        (trace[k].op = "go build" /\ ~trace[k].ok) =>
            /\ k = Len(trace)
            /\ pc = "exit"
            /\ exitCode = 1
            /\ \A j \in 1..Len(trace) :
                   trace[j].op \notin StorageOps \cup {"write SHA256SUMS"}
            /\ \A path \in DOMAIN dist.files : PathName(path) # "SHA256SUMS"
            /\ store = start.store
            /\ Cardinality(EventsOf("go build")) = k - Min(EventsOf("go build")) + 1

\* A release whose third compile (darwin-amd64) failed has exited.
C6_Witness ==
    /\ cmd = "release"
    /\ pc = "exit"
    /\ trace # <<>>
    /\ trace[Len(trace)] = Event("go build", "darwin-amd64", 0, FALSE)
    /\ Cardinality(EventsOf("go build")) = 3

\* The version text the current invocation read from main.go as it found it.
VersionAtStart == Join(get_version_from_source(start.mainGo).val)

\* The keys of the n-th target under version text v.
BinaryKey(v, n) == "lrc/" \o v \o "/" \o ExpectedDirs[n] \o "/" \o ExpectedNames[n]

SumsKey(v, n) == "lrc/" \o v \o "/" \o ExpectedDirs[n] \o "/SHA256SUMS"

\* C7: once an upload has failed, nothing follows: the failed upload is the
\* last external step of the invocation (no grant and no upload for a later
\* file), the invocation has exited with code 1, and every file uploaded
\* before it in the invocation is in the bucket at its key, with the
\* content that was uploaded.
C7_UploadFailureAborts ==
    /\ \A k \in EventsOf("b2_upload_file") :
           ~trace[k].ok => (k = Len(trace) /\ pc = "exit" /\ exitCode = 1)
    /\ \A k \in EventsOf("b2_upload_file") :
           trace[k].ok =>
               /\ trace[k].arg \in DOMAIN store
               /\ \E path \in DOMAIN dist.files :
                      store[trace[k].arg] = dist.files[path]

\* A release whose upload of the second platform's binary failed has
\* exited; the two files of the first platform are in the bucket.
C7_Witness ==
    /\ cmd = "release"
    /\ pc = "exit"
    /\ exitCode = 1
    /\ trace # <<>>
    /\ trace[Len(trace)].op = "b2_upload_file"
    /\ trace[Len(trace)].arg = BinaryKey(VersionAtStart, 2)
    /\ ~trace[Len(trace)].ok
    /\ BinaryKey(VersionAtStart, 2) \notin DOMAIN store
    /\ {BinaryKey(VersionAtStart, 1), SumsKey(VersionAtStart, 1)} \subseteq DOMAIN store

\* C8: every upload request directly follows a successful request for an
\* upload URL and uses the grant that request returned, and no two uploads
\* of an invocation use the same grant.
C8_FreshGrantPerUpload ==
    /\ \A k \in EventsOf("b2_upload_file") :
           /\ k > 1
           /\ trace[k - 1].op = "b2_get_upload_url"
           /\ trace[k - 1].ok
           /\ trace[k - 1].grant = trace[k].grant
    /\ \A j, k \in EventsOf("b2_upload_file") :
           j # k => trace[j].grant # trace[k].grant

\* A second release has ended with ten uploads, each with its own grant.
C8_Witness ==
    /\ cmd = "release"
    /\ run = 2
    /\ pc = "exit"
    /\ exitCode = 0
    /\ Cardinality(EventsOf("b2_upload_file")) = 10
    /\ Cardinality({trace[k].grant : k \in EventsOf("b2_upload_file")}) = 10

\* C9: a release that has ended with exit code 0 has made, for every target
\* of the list, exactly one successful upload of the binary and exactly one
\* of SHA256SUMS, and no other upload, each under the version that main.go
\* held when the invocation started; the bucket holds at those keys what
\* the invocation built.
C9_CompletedReleaseUploadsEveryPair ==
    (cmd = "release" /\ pc = "exit" /\ exitCode = 0) =>
        /\ Cardinality(EventsOf("b2_upload_file")) = 10
        /\ \A n \in 1..5 :
               /\ Cardinality({k \in EventsOf("b2_upload_file") :
                      trace[k].ok /\ trace[k].arg = BinaryKey(VersionAtStart, n)}) = 1
               /\ Cardinality({k \in EventsOf("b2_upload_file") :
                      trace[k].ok /\ trace[k].arg = SumsKey(VersionAtStart, n)}) = 1
               /\ BinaryKey(VersionAtStart, n) \in DOMAIN store
               /\ SumsKey(VersionAtStart, n) \in DOMAIN store
               /\ store[BinaryKey(VersionAtStart, n)] =
                      dist.files[<<"dist", ExpectedDirs[n], ExpectedNames[n]>>]
               /\ store[SumsKey(VersionAtStart, n)] =
                      dist.files[<<"dist", ExpectedDirs[n], "SHA256SUMS">>]

\* A release of v0.9.9 has ended with exit code 0.
C9_Witness ==
    /\ cmd = "release"
    /\ pc = "exit"
    /\ exitCode = 0
    /\ VersionAtStart = "v0.9.9"
    /\ "lrc/v0.9.9/windows-amd64/SHA256SUMS" \in DOMAIN store

\* C10: the destination key of every upload is
\* lrc/<version>/<os>-<arch>/<file name>, the file name being lrc (lrc.exe
\* for the windows target) or SHA256SUMS, and the URL printed for the n-th
\* platform is https://f005.backblazeb2.com/file/hexmos/lrc/<version>/
\* <os>-<arch>/; printing the URLs issues no request (the last external
\* step is still the last upload).
C10_KeysAndPublicUrls ==
    LET v    == VersionAtStart
        keys == UNION {{"lrc/" \o v \o "/" \o PLATFORMS[n][1] \o "-"
                            \o PLATFORMS[n][2] \o "/" \o name :
                        name \in {IF PLATFORMS[n][1] = "windows"
                                  THEN "lrc.exe" ELSE "lrc",
                                  "SHA256SUMS"}} : n \in 1..5}
    IN  /\ \A k \in EventsOf("b2_upload_file") : trace[k].arg \in keys
        /\ DOMAIN store \subseteq
               DOMAIN start.store
                   \cup {trace[k].arg : k \in EventsOf("b2_upload_file")}
        /\ printed # <<>> =>
               /\ Len(printed) = 6
               /\ \A n \in 1..5 :
                      printed[n + 1] =
                          "https://f005.backblazeb2.com/file/hexmos/lrc/"
                              \o v \o "/" \o PLATFORMS[n][1] \o "-"
                              \o PLATFORMS[n][2] \o "/"
               /\ trace[Len(trace)].op = "b2_upload_file"

\* A release of v1.0.0 has printed its URLs; the windows binary is at its key.
C10_Witness ==
    /\ printed # <<>>
    /\ printed[2] = "https://f005.backblazeb2.com/file/hexmos/lrc/v1.0.0/linux-amd64/"
    /\ "lrc/v1.0.0/linux-amd64/lrc" \in DOMAIN store
    /\ "lrc/v1.0.0/windows-amd64/lrc.exe" \in DOMAIN store

\* The keys of the fixed target list under version text v.
KeysOfVersion(v) ==
    {BinaryKey(v, n) : n \in 1..5} \cup {SumsKey(v, n) : n \in 1..5}

\* C11: a release that has ended with exit code 0 leaves the bucket, at
\* every key of its version, with exactly what this invocation built,
\* whatever subset of those keys an earlier, interrupted release of the same
\* version had left there; every other key of the bucket is as the
\* invocation found it.  This is the bucket a single uninterrupted release
\* from the same bucket without those keys would leave.
C11_RerunOverwritesEveryKey ==
    (cmd = "release" /\ pc = "exit" /\ exitCode = 0) =>
        /\ KeysOfVersion(VersionAtStart) \subseteq DOMAIN store
        /\ \A n \in 1..5 :
               /\ store[BinaryKey(VersionAtStart, n)] =
                      Binary(PLATFORMS[n][1], PLATFORMS[n][2], VersionAtStart,
                             run, Len(commits))
               /\ store[SumsKey(VersionAtStart, n)] =
                      SumsLine(Sha256(store[BinaryKey(VersionAtStart, n)]),
                               ExpectedNames[n])
        /\ \A key \in DOMAIN store \ KeysOfVersion(VersionAtStart) :
               key \in DOMAIN start.store /\ store[key] = start.store[key]

\* A release has ended with exit code 0 over a bucket in which an earlier
\* release of the same version, stopped after the binary of the second
\* platform, had left three of the ten keys.
C11_Witness ==
    /\ cmd = "release"
    /\ run = 2
    /\ pc = "exit"
    /\ exitCode = 0
    /\ DOMAIN start.store =
           {BinaryKey(VersionAtStart, 1), SumsKey(VersionAtStart, 1),
            BinaryKey(VersionAtStart, 2)}
    /\ start.store[BinaryKey(VersionAtStart, 2)].buildTime = 1
    /\ store[BinaryKey(VersionAtStart, 2)].buildTime = 2

\* The bump has stopped at the k-th step of trace with exit code 0 and the
\* world as the invocation found it: main.go not rewritten, nothing staged,
\* no commit.
AbortedUnchangedAt(k) ==
    /\ k = Len(trace)
    /\ pc = "exit"
    /\ exitCode = 0
    /\ mainGo = start.mainGo
    /\ tree = start.tree
    /\ commits = start.commits
    /\ dist = start.dist
    /\ store = start.store

\* The typed lines that, stripped of surrounding whitespace and lower-cased,
\* are not "y".
DecliningAnswers ==
    {Join(a) : a \in {b \in ConfirmAnswers : Lower(Strip(b)) # <<"y">>}}

\* C12 as stated: after any typed answer other than "y" the bump has exited
\* with code 0 and changed nothing.
C12_AnyAnswerOtherThanY ==
    \A k \in EventsOf("input confirm") :
        trace[k].arg \notin {"y", Join(EndOfInput)} => AbortedUnchangedAt(k)

\* C12: after an answer that, stripped of surrounding whitespace and
\* lower-cased, is anything other than "y", the bump has exited with code 0
\* and changed nothing: the answer is the last step of the invocation, and
\* main.go, the working tree and the commits are as the invocation found
\* them.
C12_DeclinedBumpChangesNothing ==
    \A k \in EventsOf("input confirm") :
        trace[k].arg \in DecliningAnswers => AbortedUnchangedAt(k)

\* A bump has been answered "yes" at the confirmation, and has exited.
C12_Witness ==
    /\ cmd = "bump"
    /\ pc = "exit"
    /\ trace # <<>>
    /\ trace[Len(trace)].op = "input confirm"
    /\ trace[Len(trace)].arg = "yes"

\* The line `new` is the line `old` with v as the text between its first two
\* quotes and everything outside them as it was.
OnlyLiteralChanged(old, new, v) ==
    LET a == Split(old, "\"")
        b == Split(new, "\"")
    IN  /\ Len(a) >= 3
        /\ Len(b) = Len(a)
        /\ b[2] = v
        /\ \A k \in 1..Len(a) : k # 2 => b[k] = a[k]

\* C13: after update_version_in_source(new_version) has returned, main.go
\* has the lines it had, except for one declaration line; when that line
\* held a quoted literal, it now holds new_version between its quotes and
\* everything outside the quotes (leading whitespace, the text before the
\* literal, a trailing comment) is as it was.
C13_WriteChangesOnlyTheLiteral ==
    (vop = "write" /\ vout.ok) =>
        /\ Len(mainGo) = Len(start.mainGo)
        /\ Cardinality({n \in 1..Len(mainGo) : mainGo[n] # start.mainGo[n]}) = 1
        /\ \A n \in 1..Len(mainGo) :
               mainGo[n] # start.mainGo[n] =>
                   /\ IsDeclLine(start.mainGo[n])
                   /\ Len(Split(start.mainGo[n], "\"")) >= 3 =>
                          OnlyLiteralChanged(start.mainGo[n], mainGo[n],
                                             new_version)

\* C20: a get_version_from_source() that follows an
\* update_version_in_source(v) that returned gives v, and the line
\* update_version_in_source rewrote is the line get_version_from_source
\* read the version from in the file as it was.
C20_ReadAndWriteSelectTheSameLine ==
    /\ vop = "readback" => vout = [ok |-> TRUE, val |-> new_version]
    /\ (vop = "write" /\ vout.ok) =>
           \A n \in 1..Len(mainGo) :
               mainGo[n] # start.mainGo[n] => n = FirstVersionLine(start.mainGo, 1)

\* The steps of a confirmed bump, in the order cmd_bump takes them.
BumpSteps == <<"write main.go", "git add", "git lrc review --skip", "git commit">>

\* C14: after the confirmation, the steps of a bump are a prefix of write,
\* stage, attestation, commit, in that order and each at most once; a step
\* that failed is the last one and the invocation has exited with code 1,
\* and when it is the stage, the attestation or the commit, main.go holds
\* the new version and no commit has been made; a bump that has exited with
\* code 0 after the confirmation has taken all four steps and made one
\* commit.
C14_ConfirmedBumpStepsInOrder ==
    \A c \in EventsOf("input confirm") :
        trace[c].ok =>
            LET steps == SubSeq(trace, c + 1, Len(trace))
            IN  /\ Len(steps) <= 4
                /\ \A j \in 1..Len(steps) :
                       /\ steps[j].op = BumpSteps[j]
                       /\ ~steps[j].ok =>
                              /\ j = Len(steps)
                              /\ pc = "exit"
                              /\ exitCode = 1
                              /\ commits = start.commits
                              /\ j >= 2 =>
                                     get_version_from_source(mainGo) =
                                         [ok |-> TRUE, val |-> new_version]
                /\ (pc = "exit" /\ exitCode = 0) =>
                       /\ Len(steps) = 4
                       /\ Len(commits) = Len(start.commits) + 1
                       /\ get_version_from_source(mainGo) =
                              [ok |-> TRUE, val |-> new_version]

\* A confirmed bump has stopped at a failed attestation: main.go holds the
\* new version, staged and not committed.
C14_Witness ==
    /\ cmd = "bump"
    /\ pc = "exit"
    /\ exitCode = 1
    /\ trace # <<>>
    /\ trace[Len(trace)].op = "git lrc review --skip"
    /\ ~trace[Len(trace)].ok
    /\ mainGo # start.mainGo
    /\ tree.staged
    /\ commits = start.commits

\* The file at path in the output directory was produced by the current
\* invocation: a binary carries the build time of the invocation, a
\* SHA256SUMS the digest of such a binary.
ProducedByThisRun(path) ==
    IF PathName(path) = "SHA256SUMS"
    THEN dist.files[path].digest.sha256.buildTime = run
    ELSE dist.files[path].buildTime = run

\* C15: once the current invocation has recreated the output directory,
\* every file and every platform directory in it was made by the current
\* invocation, also when the invocation has stopped at a failed compile.
C15_NoStaleFilesAfterCleaning ==
    EventsOf("mkdir") # {} =>
        /\ dist.exists
        /\ \A path \in DOMAIN dist.files : ProducedByThisRun(path)
        /\ dist.dirs \subseteq
               {<<"dist", trace[k].arg>> : k \in EventsOf("go build")}

\* A build over the ten files of an earlier build has stopped at the failed
\* compile of the second target; the output directory holds the first
\* target's binary only.
C15_Witness ==
    /\ run = 2
    /\ pc = "exit"
    /\ exitCode = 1
    /\ Cardinality(DOMAIN start.dist.files) = 10
    /\ trace # <<>>
    /\ trace[Len(trace)] = Event("go build", "linux-arm64", 0, FALSE)
    /\ DOMAIN dist.files = {<<"dist", "linux-amd64", "lrc">>}

\* The destination keys of a release of version text v, in the order
\* upload_to_b2 takes them: binary, then SHA256SUMS, platform by platform.
UploadOrder(v) ==
    [k \in 1..10 |->
        IF k % 2 = 1 THEN BinaryKey(v, (k + 1) \div 2) ELSE SumsKey(v, k \div 2)]

\* The upload events of trace, in order.
RECURSIVE UploadsFrom(_)
UploadsFrom(k) ==
    IF k > Len(trace) THEN <<>>
    ELSE IF trace[k].op = "b2_upload_file"
    THEN <<trace[k]>> \o UploadsFrom(k + 1)
    ELSE UploadsFrom(k + 1)

\* C16: the uploads of an invocation go through the target list in order,
\* binary then SHA256SUMS for each platform, and an upload is attempted only
\* after every upload before it has succeeded (so the SHA256SUMS of a
\* platform only after its binary is in the bucket); when the bucket held no
\* key of the version as the invocation started, no SHA256SUMS key is in the
\* bucket without the binary key of its platform.
C16_BinaryBeforeManifest ==
    LET uploads == UploadsFrom(1)
        v       == VersionAtStart
        order   == UploadOrder(v)
    IN  /\ Len(uploads) <= 10
        /\ \A k \in 1..Len(uploads) :
               /\ uploads[k].arg = order[k]
               /\ k < Len(uploads) => uploads[k].ok
               /\ uploads[k].ok => uploads[k].arg \in DOMAIN store
        /\ (cmd = "release" /\ KeysOfVersion(v) \cap DOMAIN start.store = {}) =>
               \A n \in 1..5 :
                   SumsKey(v, n) \in DOMAIN store =>
                       BinaryKey(v, n) \in DOMAIN store

\* A release into a bucket without keys of its version is about to upload
\* the SHA256SUMS of the second platform; the binary of that platform is in
\* the bucket, the SHA256SUMS is not.
C16_Witness ==
    /\ cmd = "release"
    /\ pc = "upload_sums"
    /\ i = 2
    /\ KeysOfVersion(VersionAtStart) \cap DOMAIN start.store = {}
    /\ BinaryKey(VersionAtStart, 2) \in DOMAIN store
    /\ SumsKey(VersionAtStart, 2) \notin DOMAIN store
    /\ SumsKey(VersionAtStart, 1) \in DOMAIN store

\* C17: an invocation authorizes at most once, and a release that has come
\* to its uploads exactly once: after the last SHA256SUMS of the build was
\* written and before every request for an upload URL and every upload; an
\* authorization that failed is the last step of the invocation, which has
\* exited with code 1 with no upload URL requested, nothing uploaded and the
\* bucket as the invocation found it.
C17_AuthorizeOnceBeforeUploads ==
    /\ Cardinality(EventsOf("b2_authorize_account")) <= 1
    /\ (cmd = "release" /\ pc \in UploadSteps \ {"authorize"}) =>
           Cardinality(EventsOf("b2_authorize_account")) = 1
    /\ \A a \in EventsOf("b2_authorize_account") :
           /\ cmd = "release"
           /\ Cardinality(EventsOf("go build")) = 5
           /\ Cardinality(EventsOf("write SHA256SUMS")) = 5
           /\ \A k \in EventsOf("go build") \cup EventsOf("write SHA256SUMS") :
                  k < a /\ trace[k].ok
           /\ ~trace[a].ok =>
                  /\ a = Len(trace)
                  /\ pc = "exit"
                  /\ exitCode = 1
                  /\ store = start.store
    /\ \A k \in EventsOf("b2_get_upload_url") \cup EventsOf("b2_upload_file") :
           \E a \in EventsOf("b2_authorize_account") : a < k /\ trace[a].ok

\* A second release has stopped at a failed authorization, over the bucket
\* the first one filled.
C17_Witness ==
    /\ cmd = "release"
    /\ run = 2
    /\ pc = "exit"
    /\ exitCode = 1
    /\ trace # <<>>
    /\ trace[Len(trace)].op = "b2_authorize_account"
    /\ ~trace[Len(trace)].ok
    /\ Cardinality(DOMAIN store) = 10
    /\ Cardinality(EventsOf("write SHA256SUMS")) = 5

\* The steps that occur at most once in an invocation; the others occur
\* once per target or per file, but for `git rev-parse`, which cmd_build
\* and build_cross_platform each call once.
SingleOps ==
    PreflightOps \cup
    {"read main.go", "rmtree", "mkdir", "b2_authorize_account", "input choice",
     "input confirm", "write main.go", "git add", "git lrc review --skip",
     "git commit"}

RepeatedOps ==
    {"go build", "write SHA256SUMS", "b2_get_upload_url", "b2_upload_file",
     "git rev-parse"}

\* The events with operation op have pairwise different arguments.
DistinctArgs(op) ==
    Cardinality({trace[k].arg : k \in EventsOf(op)}) = Cardinality(EventsOf(op))

\* C18: no step is retried and every error is terminal: the compiler is
\* invoked at most once per target and each destination key is uploaded at
\* most once in an invocation; a step that failed (preflight, version read,
\* compile, authorization, upload URL, upload, git step) is the last step
\* of the invocation, which has exited with code 1; an invocation that
\* exited with code 0 had no failed step.  (A declined confirmation is the
\* last step too, with exit code 0.)
C18_NoRetryEveryErrorTerminal ==
    /\ DistinctArgs("go build")
    /\ DistinctArgs("b2_upload_file")
    /\ DistinctArgs("write SHA256SUMS")
    /\ LET single == {k \in 1..Len(trace) : trace[k].op \in SingleOps}
       IN  /\ Cardinality({trace[k].op : k \in single}) = Cardinality(single)
           /\ \A k \in 1..Len(trace) \ single : trace[k].op \in RepeatedOps
    /\ Cardinality(EventsOf("git rev-parse")) <= 2
    /\ Cardinality(EventsOf("b2_get_upload_url")) <= 10
    /\ \A k \in 1..Len(trace) :
           ~trace[k].ok =>
               /\ k = Len(trace)
               /\ pc = "exit"
               /\ trace[k].op # "input confirm" => exitCode = 1

\* A release has stopped at the failed request for the upload URL of the
\* SHA256SUMS of the third platform, after five uploads.
C18_Witness ==
    /\ cmd = "release"
    /\ pc = "exit"
    /\ exitCode = 1
    /\ trace # <<>>
    /\ trace[Len(trace)].op = "b2_get_upload_url"
    /\ ~trace[Len(trace)].ok
    /\ Cardinality(EventsOf("b2_upload_file")) = 5
    /\ Cardinality(EventsOf("go build")) = 5

\* C19: every version parse_version returns has three components, each a
\* non-negative integer (so a text with a negative component is not
\* accepted), and every text bump_version returns parses to such a version.
C19_ComponentsNonNegative ==
    /\ (vop = "parse" /\ vout.ok) =>
           /\ Len(vout.val) = 3
           /\ \A k \in 1..3 : vout.val[k] \in Nat
    /\ (vop = "bump" /\ vout.ok) =>
           /\ parse_version(vout.val).ok
           /\ \A k \in 1..3 : parse_version(vout.val).val[k] \in Nat

\* C21: in the bucket, whenever the binary and the SHA256SUMS of a platform
\* are both present under the version of the current invocation, the digest
\* in the SHA256SUMS is the digest of the binary at the platform's key.
C21_ManifestMatchesStoredBinary ==
    LET v == VersionAtStart
    IN  \A n \in 1..5 :
            (BinaryKey(v, n) \in DOMAIN store /\ SumsKey(v, n) \in DOMAIN store) =>
                store[SumsKey(v, n)].digest = Sha256(store[BinaryKey(v, n)])

\* The order of versions: by major, then minor, then patch.
VersionLess(a, b) ==
    \/ a[1] < b[1]
    \/ a[1] = b[1] /\ a[2] < b[2]
    \/ a[1] = b[1] /\ a[2] = b[2] /\ a[3] < b[3]

\* C22: for every text parse_version accepts and every bump type of patch,
\* minor, major, the version bump_version returns is greater than the one
\* handed in, in the order by major, then minor, then patch; and the patch
\* bump of a version is less than its minor bump, which is less than its
\* major bump.
C22_BumpStrictlyIncreasing ==
    (vop = "bump" /\ vout.ok) =>
        LET v      == parse_version(text).val
            patch  == parse_version(bump_version(text, "patch").val).val
            minor  == parse_version(bump_version(text, "minor").val).val
            major  == parse_version(bump_version(text, "major").val).val
        IN  /\ vkind \in {"patch", "minor", "major"}
            /\ VersionLess(v, parse_version(vout.val).val)
            /\ VersionLess(patch, minor)
            /\ VersionLess(minor, major)

\* bump_version("v1.1.1", "major") has returned "v2.0.0": a greater version
\* with a smaller minor and a smaller patch.
C22_Witness ==
    /\ vop = "bump"
    /\ vkind = "major"
    /\ text = <<"v", "1", ".", "1", ".", "1">>
    /\ vout = [ok |-> TRUE, val |-> <<"v", "2", ".", "0", ".", "0">>]

=============================================================================
